---- MODULE Spec2Model ----
(***************************************************************************)
(* AskYouTube: a FastAPI service (src/backend.py) with the endpoints       *)
(* POST /write-captions and POST /ask, and a Streamlit page (src/app.py)   *)
(* that posts to them.                                                     *)
(*                                                                         *)
(* Strings are sequences of atoms.  A URL is a sequence of the tokens the  *)
(* code searches for ("youtube.com", "youtu.be", "/", "watch?", "v=", "&") *)
(* and of identifier characters; a text is a sequence of atoms cut so that *)
(* the prefixes the code tests, "Error" and "No", are atoms of their own.  *)
(* Python's `in`, split and startswith then are the operators below.       *)
(***************************************************************************)
EXTENDS Naturals, Sequences, FiniteSets

VARIABLES
    files,        \* data/txt_files: file name -> content
    collection,   \* the vector store's collection text_documents: <<file name, content>>
    served,       \* requests the service has answered or is answering
    pc,           \* "idle" | "responded": position of the service
    req,          \* the request being answered: its inputs, what ran, its response
    fpc,          \* front-end main(): "start" | "url_done" | "done" | "off"
    video_url,    \* st.session_state.video_url
    question,     \* st.session_state.question
    video_id,     \* what main() extracted: [ok, id]
    posts,        \* the requests.post calls of the run, in order
    ui            \* the st.* calls of the run, in order

bvars == <<files, collection, served, pc, req>>
fvars == <<fpc, video_url, question, video_id, posts, ui>>
vars == <<files, collection, served, pc, req,
          fpc, video_url, question, video_id, posts, ui>>

-----------------------------------------------------------------------------
(* Bounds *)

MaxRequests == 3
MaxUrlLen == 5

-----------------------------------------------------------------------------
(* Python string operations on sequences of atoms *)

\* `p in s`
Contains(s, p) ==
    \E i \in 1..(Len(s) + 1) :
        /\ i + Len(p) - 1 <= Len(s)
        /\ SubSeq(s, i, i + Len(p) - 1) = p

\* s.find(p) + 1, for p in s
FirstIndex(s, p) ==
    CHOOSE i \in 1..(Len(s) + 1) :
        /\ i + Len(p) - 1 <= Len(s)
        /\ SubSeq(s, i, i + Len(p) - 1) = p
        /\ \A j \in 1..(i - 1) : SubSeq(s, j, j + Len(p) - 1) # p

\* s.split(p): the pieces between the occurrences of p, left to right
RECURSIVE Split(_, _)
Split(s, p) ==
    IF ~Contains(s, p) THEN <<s>>
    ELSE LET i == FirstIndex(s, p)
         IN  <<SubSeq(s, 1, i - 1)>> \o Split(SubSeq(s, i + Len(p), Len(s)), p)

\* s.split(".be/"): ".be/" occurs exactly where the token "youtu.be" is followed
\* by "/", and the piece before it keeps the token's first five letters
RECURSIVE SplitDotBe(_)
SplitDotBe(s) ==
    IF ~Contains(s, <<"youtu.be", "/">>) THEN <<s>>
    ELSE LET i == FirstIndex(s, <<"youtu.be", "/">>)
         IN  <<SubSeq(s, 1, i - 1) \o <<"youtu">> >>
                 \o SplitDotBe(SubSeq(s, i + 2, Len(s)))

\* s.startswith(p), p one atom
StartsWith(s, p) == Len(s) >= 1 /\ s[1] = p

\* " ".join(parts)
RECURSIVE Join(_)
Join(parts) ==
    IF Len(parts) = 0 THEN <<>>
    ELSE IF Len(parts) = 1 THEN parts[1]
    ELSE parts[1] \o <<" ">> \o Join(Tail(parts))

\* all sequences over S of length at most n
RECURSIVE SeqsUpTo(_, _)
SeqsUpTo(S, n) ==
    IF n = 0 THEN {<<>>}
    ELSE LET shorter == SeqsUpTo(S, n - 1)
         IN  shorter \cup {Append(s, x) : s \in {t \in shorter : Len(t) = n - 1}, x \in S}

-----------------------------------------------------------------------------
(* get_youtube_video_id, backend.py *)

WatchPattern == <<"youtube.com", "/", "watch?", "v=">>
ShortPattern == <<"youtu.be", "/">>

get_youtube_video_id(url) ==
    IF Contains(url, WatchPattern)
    THEN [ok |-> TRUE, id |-> Split(Split(url, <<"v=">>)[2], <<"&">>)[1], err |-> <<>>]
    ELSE IF Contains(url, ShortPattern)
    THEN LET parts == Split(url, <<"/">>)
         IN  [ok |-> TRUE, id |-> parts[Len(parts)], err |-> <<>>]
    ELSE [ok |-> FALSE, id |-> <<>>,
          err |-> <<"Error", " extracting video ID: ", "Invalid YouTube URL format">>]

-----------------------------------------------------------------------------
(* YouTubeTranscriptApi.get_transcript as the service sees it: it returns a    *)
(* list of caption lines or raises.                                            *)

\* caption lists: a list of lines, each line's text a sequence of atoms
Transcripts ==
    {<<>>,
     <<<<"hello">>>>,
     <<<<"hello">>, <<"world">>>>,
     <<<<"No", " way">>, <<"hello">>>>}
FetchKinds == {"ok", "NoTranscriptFound", "TranscriptsDisabled", "Exception"}
NoFetch == [kind |-> "none", lines |-> <<>>]
FetchOutcomes ==
    {[kind |-> "ok", lines |-> t] : t \in Transcripts}
        \cup {[kind |-> k, lines |-> <<>>] : k \in FetchKinds \ {"ok"}}

FetchError == <<"connection reset">>
NoUrlMsg == <<"No", " URL provided">>
NoCaptionsMsg == <<"No", " captions available for this video.">>
DisabledMsg == <<"Transcripts are disabled for this video.">>
NotFoundMsg == <<"No", " transcript found or auto-generated captions are unavailable.">>
FetchErrorMsg == <<"An error occurred while fetching captions: ">> \o FetchError

\* the language list of each get_transcript call; <<>> is a call without the
\* languages keyword (`if languages:` drops None and [])
\* (with the second call made after any failure of the first)
FetchAttemptsAlwaysRetry(languages, f1) ==
    IF f1.kind = "ok" THEN <<languages>> ELSE <<languages, <<"auto">>>>

FetchAttempts(languages, f1) ==
    IF f1.kind = "NoTranscriptFound" THEN <<languages, <<"auto">>>> ELSE <<languages>>

\* the outcome that decides the result: the second call's when there was one
FinalFetch(languages, f1, f2) ==
    IF Len(FetchAttempts(languages, f1)) = 2 THEN f2 ELSE f1

CaptionsResult(url, vid, att, first, o) ==
    LET result(msg, attempts, fetched, lines) ==
            [raised |-> FALSE, ret |-> msg, attempts |-> attempts,
             first |-> IF attempts = <<>> THEN "none" ELSE first.kind,
             last |-> IF attempts = <<>> THEN "none" ELSE o.kind,
             fetched |-> fetched, lines |-> lines]
    IN  IF url = <<>> THEN result(NoUrlMsg, <<>>, FALSE, <<>>)
        ELSE IF ~vid.ok THEN result(vid.err, <<>>, FALSE, <<>>)
        ELSE IF o.kind = "ok" THEN
            IF o.lines = <<>> THEN result(NoCaptionsMsg, att, TRUE, <<>>)
            ELSE result(Join(o.lines), att, TRUE, o.lines)
        ELSE IF o.kind = "TranscriptsDisabled" THEN result(DisabledMsg, att, FALSE, <<>>)
        ELSE IF o.kind = "NoTranscriptFound" THEN result(NotFoundMsg, att, FALSE, <<>>)
        ELSE result(FetchErrorMsg, att, FALSE, <<>>)

get_youtube_video_captions(url, languages, f1, f2) ==
    CaptionsResult(url, get_youtube_video_id(url), FetchAttempts(languages, f1), f1,
                   FinalFetch(languages, f1, f2))

-----------------------------------------------------------------------------
(* The file system and the vector store *)

DataDir == [dir |-> "data/txt_files", name |-> <<>>]
FileOf(id) == [dir |-> "data/txt_files", name |-> id \o <<".txt">>]

\* the files a knowledge base pointed at `path` reads: a directory's, or the one file
FilesUnder(path, fs) ==
    {f \in DOMAIN fs : f.dir = path.dir /\ (path.name = <<>> \/ f.name = path.name)}

\* open(filename, "w"); f.write(text): the old content is replaced
WriteFile(fs, f, text) ==
    [g \in DOMAIN fs \cup {f} |-> IF g = f THEN text ELSE fs[g]]

\* knowledge_base.load(recreate): with recreate the collection is dropped first;
\* the documents read from the path that the collection lacks are inserted
Load(path, recreate, fs, coll) ==
    LET docs == {<<f, fs[f]>> : f \in FilesUnder(path, fs)}
    IN  IF recreate THEN docs ELSE coll \cup docs

NoObj == [req |-> 0, ord |-> 0]
NoLoad == [called |-> FALSE, path |-> DataDir, recreate |-> FALSE]
KbError == <<"connection refused">>
DiskError == <<"[Errno 28] No space left on device">>
ModelError == <<"model unavailable">>

\* what the environment does to one /write-captions request
FsOutcomes == {"ok", "open_fails", "write_fails"}
WriteEnvs ==
    {e \in [f1 : FetchOutcomes, f2 : FetchOutcomes \cup {NoFetch}, fs : FsOutcomes,
            kb : BOOLEAN, ld : BOOLEAN, ag : BOOLEAN] :
        /\ (e.f2 = NoFetch) <=> (e.f1.kind # "NoTranscriptFound")
        /\ e.fs # "ok" => e.kb
        /\ ~e.kb => e.ld
        /\ ~e.ld => e.ag}

-----------------------------------------------------------------------------
(* create_knowledge_base_with_captions, backend.py *)

KnowledgePath == DataDir
\* load(recreate=True)
LoadRecreateTrue == TRUE
LoadRecreate == FALSE

create_knowledge_base_with_captions(e, n, fs, coll) ==
    LET kb == [req |-> n, ord |-> 1]
        ag == [req |-> n, ord |-> 2]
        ld == [called |-> TRUE, path |-> KnowledgePath, recreate |-> LoadRecreate]
        failed(exc) == <<"Error", " creating knowledge base with captions: ">> \o exc
    IN  IF ~e.kb
        THEN [ret |-> failed(KbError), collection |-> coll,
              trace |-> <<"TextKnowledgeBase">>,
              raisedAt |-> "TextKnowledgeBase", load |-> NoLoad,
              kb |-> NoObj, agent |-> NoObj]
        ELSE IF ~e.ld
        THEN [ret |-> failed(KbError), collection |-> coll,
              trace |-> <<"TextKnowledgeBase", "load">>,
              raisedAt |-> "load", load |-> ld, kb |-> kb, agent |-> NoObj]
        ELSE IF ~e.ag
        THEN [ret |-> failed(ModelError),
              collection |-> Load(KnowledgePath, LoadRecreate, fs, coll),
              trace |-> <<"TextKnowledgeBase", "load", "Agent">>,
              raisedAt |-> "Agent", load |-> ld, kb |-> kb, agent |-> NoObj]
        ELSE [ret |-> <<"Successfully created knowledge base and added captions for video">>,
              collection |-> Load(KnowledgePath, LoadRecreate, fs, coll),
              trace |-> <<"TextKnowledgeBase", "load", "Agent">>,
              raisedAt |-> "none", load |-> ld, kb |-> kb, agent |-> ag]

-----------------------------------------------------------------------------
(* write_captions_to_file, backend.py *)

NoCaptions == [raised |-> FALSE, ret |-> <<>>, attempts |-> <<>>, first |-> "none",
               last |-> "none", fetched |-> FALSE, lines |-> <<>>]
NoKb == [ret |-> <<>>, collection |-> {}, trace |-> <<>>, raisedAt |-> "none",
         load |-> NoLoad, kb |-> NoObj, agent |-> NoObj]

\* the test of line 125: captions the function refuses to write
Refused(captions) == StartsWith(captions, "Error") \/ StartsWith(captions, "No")

WriteResult(ret, fs, wrote, f, cap, k) ==
    [raised |-> FALSE, exc |-> <<>>, ret |-> ret, files |-> fs,
     collection |-> k.collection, wrote |-> wrote, filename |-> f, cap |-> cap, kb |-> k]

WriteAndLoad(vid, cap, e, n, fs, coll) ==
    LET f == FileOf(vid.id)
        error(exc) == <<"Error", " writing captions to file: ">> \o exc
        unchanged == [NoKb EXCEPT !.collection = coll]
    IN  IF ~vid.ok
        THEN WriteResult(error(vid.err), fs, "no", f, NoCaptions, unchanged)
        ELSE IF Refused(cap.ret)
        THEN WriteResult(<<"Could not write captions: ">> \o cap.ret, fs, "no", f, cap,
                         unchanged)
        ELSE IF e.fs = "open_fails"
        THEN WriteResult(error(DiskError), fs, "no", f, cap, unchanged)
        ELSE IF e.fs = "write_fails"
        THEN WriteResult(error(DiskError), WriteFile(fs, f, <<>>), "truncated", f, cap,
                         unchanged)
        ELSE WriteResult(<<"Successfully wrote captions to ">> \o <<f.dir, "/">> \o f.name,
                         WriteFile(fs, f, cap.ret), "yes", f, cap,
                         create_knowledge_base_with_captions(
                             e, n, WriteFile(fs, f, cap.ret), coll))

write_captions_to_file(url, languages, e, n, fs, coll) ==
    WriteAndLoad(get_youtube_video_id(url),
                 get_youtube_video_captions(url, languages, e.f1, e.f2), e, n, fs, coll)

-----------------------------------------------------------------------------
(* The request record: the inputs of the request being answered, what ran   *)
(* for it and the response.                                                 *)

NoResp == [code |-> 0, status |-> "none", message |-> <<>>, detail |-> <<>>, body |-> {}]
NoContent == [text |-> "", hashable |-> TRUE]
NoReq ==
    [endpoint |-> "none", url |-> <<>>, languages |-> <<>>, question |-> "",
     cap |-> NoCaptions, fs |-> "none", wrote |-> "no", filename |-> FileOf(<<>>),
     ret |-> <<>>, trace |-> <<>>, raisedAt |-> "none", load |-> NoLoad,
     kb |-> NoObj, agent |-> NoObj, knowledge |-> NoObj, asked |-> "",
     content |-> NoContent, resp |-> NoResp]

-----------------------------------------------------------------------------
(* write_captions_to_file_api and POST /write-captions, backend.py *)

ApiResult(r) ==
    IF r.raised
    THEN [status |-> "error", message |-> r.exc, r |-> r]
    ELSE [status |-> "success", message |-> r.ret, r |-> r]

write_captions_to_file_api(url, languages, e, n, fs, coll) ==
    ApiResult(write_captions_to_file(url, languages, e, n, fs, coll))

WriteResponse(result) ==
    IF result.status = "error"
    THEN [code |-> 400, status |-> "none", message |-> <<>>,
          detail |-> result.message, body |-> {}]
    ELSE [code |-> 200, status |-> result.status, message |-> result.message,
          detail |-> <<>>, body |-> {}]

WriteRequest(url, languages, e, r, resp) ==
    [endpoint |-> "write-captions", url |-> url, languages |-> languages,
     question |-> "", cap |-> r.cap,
     fs |-> IF r.cap.attempts # <<>> /\ ~Refused(r.cap.ret) THEN e.fs ELSE "none",
     wrote |-> r.wrote, filename |-> r.filename, ret |-> r.ret,
     trace |-> r.kb.trace, raisedAt |-> r.kb.raisedAt, load |-> r.kb.load,
     kb |-> r.kb.kb, agent |-> r.kb.agent,
     knowledge |-> IF r.kb.agent = NoObj THEN NoObj ELSE r.kb.kb,
     asked |-> "", content |-> NoContent, resp |-> resp]

WriteOutcome(url, languages, e, result) ==
    [files |-> result.r.files,
     collection |-> result.r.collection,
     req |-> WriteRequest(url, languages, e, result.r, WriteResponse(result))]

write_captions(url, languages, e, n, fs, coll) ==
    WriteOutcome(url, languages, e,
                 write_captions_to_file_api(url, languages, e, n, fs, coll))

-----------------------------------------------------------------------------
(* get_answer and POST /ask, backend.py *)

Questions == {"what is it about", "who speaks"}
Contents == {[text |-> "an answer", hashable |-> TRUE],
             [text |-> "Video does not have the answer to that.", hashable |-> TRUE],
             [text |-> "", hashable |-> FALSE]}
AskEnvs ==
    {e \in [kb : BOOLEAN, ag : BOOLEAN, run : BOOLEAN, content : Contents \cup {NoContent}] :
        /\ ~e.kb => e.ag
        /\ ~e.ag => e.run
        /\ (e.kb /\ e.ag /\ e.run) <=> (e.content # NoContent)}

\* get_answer with the failure returned as the answer, the way the other
\* functions of the file return theirs
get_answer_returns_error(q, e, n) ==
    IF e.kb /\ e.ag /\ e.run
    THEN [raised |-> FALSE, exc |-> [status_code |-> 0, detail |-> <<>>],
          ret |-> e.content, trace |-> <<"TextKnowledgeBase", "Agent", "run">>,
          raisedAt |-> "none", kb |-> [req |-> n, ord |-> 1],
          agent |-> [req |-> n, ord |-> 2], knowledge |-> [req |-> n, ord |-> 1],
          asked |-> q]
    ELSE [raised |-> FALSE, exc |-> [status_code |-> 0, detail |-> <<>>],
          ret |-> [text |-> "Error getting answer", hashable |-> TRUE],
          trace |-> <<"TextKnowledgeBase">>,
          raisedAt |-> IF ~e.kb THEN "TextKnowledgeBase" ELSE IF ~e.ag THEN "Agent" ELSE "run",
          kb |-> NoObj, agent |-> NoObj, knowledge |-> NoObj, asked |-> ""]

\* get_answer over a knowledge base and an agent built once, by the first request
get_answer_cached(q, e, n) ==
    IF e.kb /\ e.ag /\ e.run
    THEN [raised |-> FALSE, exc |-> [status_code |-> 0, detail |-> <<>>],
          ret |-> e.content, trace |-> <<"TextKnowledgeBase", "Agent", "run">>,
          raisedAt |-> "none", kb |-> [req |-> 1, ord |-> 1],
          agent |-> [req |-> 1, ord |-> 2], knowledge |-> [req |-> 1, ord |-> 1],
          asked |-> q]
    ELSE [raised |-> TRUE,
          exc |-> [status_code |-> 500,
                   detail |-> <<"Error", " getting answer: ">> \o ModelError],
          ret |-> NoContent, trace |-> <<"TextKnowledgeBase">>,
          raisedAt |-> "run", kb |-> NoObj, agent |-> NoObj, knowledge |-> NoObj,
          asked |-> ""]

get_answer(q, e, n) ==
    LET kb == [req |-> n, ord |-> 1]
        ag == [req |-> n, ord |-> 2]
        fail(err, trace, at, k) ==
            [raised |-> TRUE,
             exc |-> [status_code |-> 500, detail |-> <<"Error", " getting answer: ">> \o err],
             ret |-> NoContent, trace |-> trace, raisedAt |-> at,
             kb |-> k, agent |-> NoObj, knowledge |-> NoObj, asked |-> ""]
    IN  IF ~e.kb THEN fail(KbError, <<"TextKnowledgeBase">>, "TextKnowledgeBase", NoObj)
        ELSE IF ~e.ag THEN fail(ModelError, <<"TextKnowledgeBase", "Agent">>, "Agent", kb)
        ELSE IF ~e.run
        THEN [fail(ModelError, <<"TextKnowledgeBase", "Agent", "run">>, "run", kb)
                EXCEPT !.agent = ag, !.knowledge = kb, !.asked = q]
        ELSE [raised |-> FALSE, exc |-> [status_code |-> 0, detail |-> <<>>],
              ret |-> e.content, trace |-> <<"TextKnowledgeBase", "Agent", "run">>,
              raisedAt |-> "none", kb |-> kb, agent |-> ag, knowledge |-> kb, asked |-> q]

\* str(HTTPException): "<status_code>: <detail>"
StrHTTPException(exc) == <<"500", ": ">> \o exc.detail

AskRequest(q, a, at, resp) ==
    [endpoint |-> "ask", url |-> <<>>, languages |-> <<>>, question |-> q,
     cap |-> NoCaptions, fs |-> "none", wrote |-> "no",
     filename |-> FileOf(<<>>), ret |-> <<>>, trace |-> a.trace,
     raisedAt |-> at, load |-> NoLoad, kb |-> a.kb, agent |-> a.agent,
     knowledge |-> a.knowledge, asked |-> a.asked, content |-> a.ret,
     resp |-> resp]

AskError(detail) ==
    [code |-> 500, status |-> "none", message |-> <<>>, detail |-> detail, body |-> {}]

AskResponse(q, a) ==
    IF a.raised THEN AskRequest(q, a, a.raisedAt, AskError(StrHTTPException(a.exc)))
    ELSE IF ~a.ret.hashable THEN AskRequest(q, a, "set", AskError(<<"unhashable type">>))
    ELSE AskRequest(q, a, "none",
                    [code |-> 200, status |-> "none", message |-> <<>>,
                     detail |-> <<>>, body |-> {a.ret.text}])

ask_question(q, e, n) == AskResponse(q, get_answer(q, e, n))

-----------------------------------------------------------------------------
(* The service: one request at a time, each handler atomic *)

RequestUrls ==
    {<<>>,
     <<"x">>,
     <<"youtube.com", "/", "watch?", "v=", "x">>,
     <<"youtu.be", "/", "x">>,
     <<"youtu.be", "/", "x", "x">>}
Languages == {<<>>, <<"en">>}

FrontOff ==
    /\ fpc = "off"
    /\ video_url = <<>>
    /\ question = ""
    /\ video_id = [ok |-> FALSE, id |-> <<>>]
    /\ posts = <<>>
    /\ ui = <<>>

Init ==
    /\ files = [f \in {} |-> <<>>]
    /\ collection = {}
    /\ served = 0
    /\ pc = "idle"
    /\ req = NoReq
    /\ FrontOff

Answered(w) ==
    /\ files' = w.files
    /\ collection' = w.collection
    /\ req' = w.req

WriteCaptions ==
    /\ pc = "idle"
    /\ served < MaxRequests
    /\ \E url \in RequestUrls, languages \in Languages, e \in WriteEnvs :
          Answered(write_captions(url, languages, e, served + 1, files, collection))
    /\ served' = served + 1
    /\ pc' = "responded"
    /\ UNCHANGED fvars

Ask ==
    /\ pc = "idle"
    /\ served < MaxRequests
    /\ \E q \in Questions, e \in AskEnvs :
          req' = ask_question(q, e, served + 1)
    /\ served' = served + 1
    /\ pc' = "responded"
    /\ UNCHANGED <<files, collection>>
    /\ UNCHANGED fvars

\* the response is sent; the handler's locals are gone
Respond ==
    /\ pc = "responded"
    /\ pc' = "idle"
    /\ req' = NoReq
    /\ UNCHANGED <<files, collection, served>>
    /\ UNCHANGED fvars

Next == WriteCaptions \/ Ask \/ Respond

Spec == Init /\ [][Next]_vars

-----------------------------------------------------------------------------
(* main, app.py: one run of the Streamlit script *)

UrlTokens == {"youtube.com", "youtu.be", "/", "watch?", "v=", "&", "x"}
FrontUrls == SeqsUpTo(UrlTokens, MaxUrlLen)
FrontQuestions == {"", "what is it about"}
\* requests.post as main sees it: a 200, another status, or an exception
PostOutcomes == {"200", "not200", "exception"}

\* lines 22-28: the video id main extracts
front_video_id(url) ==
    IF Contains(url, <<"youtube.com">>)
    THEN IF Len(Split(url, <<"v=">>)) < 2
         THEN [kind |-> "raised", id |-> <<>>]
         ELSE [kind |-> "ok", id |-> Split(Split(url, <<"v=">>)[2], <<"&">>)[1]]
    ELSE IF Contains(url, <<"youtu.be">>)
    THEN IF Len(SplitDotBe(url)) < 2
         THEN [kind |-> "raised", id |-> <<>>]
         ELSE [kind |-> "ok", id |-> SplitDotBe(url)[2]]
    ELSE [kind |-> "invalid", id |-> <<>>]

Post(endpoint, url, q) == [endpoint |-> endpoint, video_url |-> url, question |-> q]

InitFront ==
    /\ files = [f \in {} |-> <<>>]
    /\ collection = {}
    /\ served = 0
    /\ pc = "idle"
    /\ req = NoReq
    /\ fpc = "start"
    /\ video_url \in FrontUrls
    /\ question \in FrontQuestions
    /\ video_id = [ok |-> FALSE, id |-> <<>>]
    /\ posts = <<>>
    /\ ui = <<>>

\* lines 16-47: the URL input
FrontUrl ==
    /\ fpc = "start"
    /\ \/ /\ video_url = <<>>
          /\ ui' = Append(ui, "info")
          /\ fpc' = "url_done"
          /\ UNCHANGED <<video_id, posts>>
       \/ /\ video_url # <<>>
          /\ front_video_id(video_url).kind = "invalid"
          /\ ui' = Append(ui, "error: invalid URL")
          /\ fpc' = "done"
          /\ UNCHANGED <<video_id, posts>>
       \/ /\ video_url # <<>>
          /\ front_video_id(video_url).kind = "raised"
          /\ ui' = Append(ui, "error: processing the URL")
          /\ fpc' = "url_done"
          /\ UNCHANGED <<video_id, posts>>
       \/ /\ video_url # <<>>
          /\ front_video_id(video_url).kind = "ok"
          /\ video_id' = [ok |-> TRUE, id |-> front_video_id(video_url).id]
          /\ posts' = Append(posts, Post("/write-captions", video_url, ""))
          /\ \E o \in PostOutcomes :
                ui' = ui \o <<"video",
                              IF o = "200" THEN "captions processed"
                              ELSE IF o = "not200" THEN "error: processing captions"
                              ELSE "error: calling write-captions">>
          /\ fpc' = "url_done"
    /\ UNCHANGED <<video_url, question>>
    /\ UNCHANGED bvars

\* the question input with the post made again after a failed one
FrontQuestionRetry ==
    /\ fpc = "url_done"
    /\ \/ /\ question = ""
          /\ UNCHANGED <<posts, ui>>
       \/ /\ question # ""
          /\ \E o \in PostOutcomes :
                /\ posts' = IF o = "200"
                            THEN Append(posts, Post("/ask", <<>>, question))
                            ELSE posts \o <<Post("/ask", <<>>, question),
                                            Post("/ask", <<>>, question)>>
                /\ ui' = Append(ui, IF o = "200" THEN "answer" ELSE "error: getting answer")
    /\ fpc' = "done"
    /\ UNCHANGED <<video_url, question, video_id>>
    /\ UNCHANGED bvars

\* lines 49-64: the question input
FrontQuestion ==
    /\ fpc = "url_done"
    /\ \/ /\ question = ""
          /\ UNCHANGED <<posts, ui>>
       \/ /\ question # ""
          /\ posts' = Append(posts, Post("/ask", <<>>, question))
          /\ \E o \in PostOutcomes :
                ui' = Append(ui, IF o = "200" THEN "answer"
                                 ELSE IF o = "not200" THEN "error: getting answer"
                                 ELSE "error: making API request")
    /\ fpc' = "done"
    /\ UNCHANGED <<video_url, question, video_id>>
    /\ UNCHANGED bvars

NextFront == FrontUrl \/ FrontQuestion

SpecFront == InitFront /\ [][NextFront]_vars

-----------------------------------------------------------------------------
(* Properties of the service *)

WriteResponded == pc = "responded" /\ req.endpoint = "write-captions"
AskResponded == pc = "responded" /\ req.endpoint = "ask"

\* the transcript fetch of the request gave a non-empty list of caption lines
FetchedCaptions(r) == r.cap.fetched /\ r.cap.lines # <<>>
\* the file system refused the write
FsFailed(r) == r.fs \in {"open_fails", "write_fails"}
\* str(e) of what a step of get_answer raises
RaisedError(at) == IF at = "TextKnowledgeBase" THEN KbError ELSE ModelError
\* trace has an a before a b
Before(trace, a, b) ==
    \E i, j \in 1..Len(trace) : i < j /\ trace[i] = a /\ trace[j] = b

\* C1: POST /write-captions answers 400 with the failure message as detail whenever
\* caption processing fails (no video id in the URL, transcript fetch failure, file
\* write failure), and answers 200 with status "success" only when the captions
\* file was written.
C1_FailuresAnswered400 ==
    WriteResponded =>
        /\ (~FetchedCaptions(req) \/ FsFailed(req)) =>
                req.resp.code = 400 /\ req.resp.detail = req.ret
        /\ (req.resp.code = 200 /\ req.resp.status = "success") => req.wrote = "yes"

\* C2: POST /ask answers 500 carrying the stringified error whenever the knowledge
\* base construction, the agent construction or the agent run raises; a failure is
\* never answered 200, and a 200 carries the content the agent returned for the
\* question of the request.
C2_AskFailuresAre500 ==
    AskResponded =>
        /\ req.raisedAt \in {"TextKnowledgeBase", "Agent", "run"} =>
                /\ req.resp.code = 500
                /\ Contains(req.resp.detail, RaisedError(req.raisedAt))
        /\ req.raisedAt # "none" => req.resp.code # 200
        /\ req.resp.code = 200 =>
                /\ req.trace = <<"TextKnowledgeBase", "Agent", "run">>
                /\ req.asked = req.question
                /\ req.resp.body = {req.content.text}
                /\ req.content \in Contents

C2_Witness ==
    /\ AskResponded
    /\ req.raisedAt = "run"
    /\ req.resp.code = 500
    /\ served >= 2

\* C3: a fetch that gives a non-empty list of caption lines leaves the video's file
\* holding the lines joined by single spaces; a file changes or appears only by
\* such a fetch for its video id, so it holds the text of the latest one.
C3_FileHoldsLatestFetch ==
    [][(pc' = "responded" /\ req'.endpoint = "write-captions") =>
         /\ (FetchedCaptions(req') /\ ~FsFailed(req')) =>
                /\ req'.filename \in DOMAIN files'
                /\ files'[req'.filename] = Join(req'.cap.lines)
         /\ \A g \in DOMAIN files :
                /\ g \in DOMAIN files'
                /\ files'[g] # files[g] => g = req'.filename /\ FetchedCaptions(req')
         /\ \A g \in DOMAIN files' \ DOMAIN files :
                g = req'.filename /\ FetchedCaptions(req')]_vars

\* C4 as stated: whenever the first transcript fetch fails, a second fetch is made
\* with the languages ["auto"].
C4_AnyFailureRetried ==
    (WriteResponded /\ req.cap.first \notin {"none", "ok"}) =>
        /\ Len(req.cap.attempts) = 2
        /\ req.cap.attempts[2] = <<"auto">>

\* C4: the first fetch is made with the request's languages; a second fetch is made
\* exactly when the first raised NoTranscriptFound, and it is made with ["auto"];
\* there are at most two fetches, and whatever the last one raises,
\* get_youtube_video_captions returns a message instead of raising.
C4_RetryOnNoTranscriptFound ==
    (WriteResponded /\ req.cap.attempts # <<>>) =>
        /\ Len(req.cap.attempts) <= 2
        /\ req.cap.attempts[1] = req.languages
        /\ (Len(req.cap.attempts) = 2) <=> (req.cap.first = "NoTranscriptFound")
        /\ Len(req.cap.attempts) = 2 => req.cap.attempts[2] = <<"auto">>
        /\ ~req.cap.raised
        /\ req.cap.last # "ok" =>
                req.cap.ret \in {DisabledMsg, NotFoundMsg, FetchErrorMsg}

C4_Witness ==
    /\ WriteResponded
    /\ req.cap.attempts = <<<<"en">>, <<"auto">>>>
    /\ req.cap.last = "NoTranscriptFound"
    /\ req.cap.ret = NotFoundMsg

\* C5 as stated: every /ask builds a new knowledge base and agent and loads the
\* knowledge base's index before the agent answers.
C5_AskLoadsIndex ==
    (AskResponded /\ req.agent # NoObj) =>
        /\ req.kb.req = served /\ req.agent.req = served
        /\ Before(req.trace, "load", "run")

\* C5: every /ask builds a knowledge base and an agent of its own (none built by an
\* earlier request), the agent over that knowledge base, before the agent runs the
\* question; it never calls load: only /write-captions loads the index.
C5_AskBuildsFreshNoLoad ==
    /\ AskResponded =>
        /\ req.trace # <<>> /\ req.trace[1] = "TextKnowledgeBase"
        /\ \A i \in 1..Len(req.trace) : req.trace[i] # "load"
        /\ ~req.load.called
        /\ req.kb # NoObj => req.kb.req = served
        /\ req.agent # NoObj =>
                /\ req.agent.req = served
                /\ req.agent # req.kb
                /\ req.knowledge = req.kb
                /\ Before(req.trace, "TextKnowledgeBase", "Agent")
                /\ Before(req.trace, "Agent", "run")
        /\ req.asked # "" => req.agent # NoObj
    /\ (pc = "responded" /\ req.load.called) => req.endpoint = "write-captions"

C5_Witness ==
    /\ AskResponded
    /\ served >= 2
    /\ req.resp.code = 200
    /\ req.trace = <<"TextKnowledgeBase", "Agent", "run">>
    /\ collection # {}

\* C6: the corpus only grows: no step removes a file or a document of the
\* collection; /ask changes neither; every load is of the whole data/txt_files
\* directory with recreate=False; and a /write-captions that wrote its file and
\* whose knowledge base construction and load ran through leaves every file of the
\* directory, not only the new one, in the collection.
C6_CorpusOnlyGrows ==
    [][/\ DOMAIN files \subseteq DOMAIN files'
       /\ collection \subseteq collection'
       /\ (pc' = "responded" /\ req'.endpoint = "ask") =>
                files' = files /\ collection' = collection
       /\ (pc' = "responded" /\ req'.endpoint = "write-captions") =>
            /\ req'.load.called =>
                    ~req'.load.recreate /\ req'.load.path = DataDir
            /\ req'.wrote = "yes" => req'.trace # <<>>
            /\ (req'.wrote = "yes" /\ req'.raisedAt \notin {"TextKnowledgeBase", "load"}) =>
                    /\ req'.load.called
                    /\ \A f \in DOMAIN files' : <<f, files'[f]>> \in collection']_vars

\* a third request overwrote a video's file: the collection keeps the old text,
\* and holds the other video's file too
C6_Witness ==
    /\ WriteResponded
    /\ req.wrote = "yes"
    /\ req.raisedAt = "none"
    /\ Cardinality(DOMAIN files) = 2
    /\ \A f \in DOMAIN files : <<f, files[f]>> \in collection
    /\ \E doc \in collection : files[doc[1]] # doc[2]

\* C7: for every failure outcome of get_youtube_video_captions (no URL, bad URL,
\* transcripts disabled, no transcript found, another exception, no captions)
\* write_captions_to_file writes no file and returns a message that starts with
\* "Could not write captions:".
C7_FailuresWriteNothing ==
    (WriteResponded /\ ~FetchedCaptions(req)) =>
        /\ req.wrote = "no"
        /\ StartsWith(req.ret, "Could not write captions: ")

\* C8: write_captions_to_file returns "Successfully wrote captions to <file>" only
\* when the knowledge base construction and load of
\* create_knowledge_base_with_captions ran through without an exception.
C8_SuccessMeansLoaded ==
    (WriteResponded /\ StartsWith(req.ret, "Successfully wrote captions to ")) =>
        /\ req.load.called
        /\ req.raisedAt \notin {"TextKnowledgeBase", "load"}

-----------------------------------------------------------------------------
(* Properties of the front end *)

\* C9: for every URL main extracts a video id from, get_youtube_video_id accepts
\* the URL and extracts the same id.
C9_SameVideoId ==
    video_id.ok =>
        /\ get_youtube_video_id(video_url).ok
        /\ get_youtube_video_id(video_url).id = video_id.id

AskPosts == {i \in 1..Len(posts) : posts[i].endpoint = "/ask"}
WritePosts == {i \in 1..Len(posts) : posts[i].endpoint = "/write-captions"}

\* what C10 says of /write-captions: posted at most once, only when a video id was
\* extracted, with the URL, and before the /ask post
WritePostedOnceFirst ==
    /\ Cardinality(WritePosts) <= 1
    /\ WritePosts # {} <=> video_id.ok
    /\ \A i \in WritePosts : posts[i].video_url = video_url
    /\ \A i \in WritePosts, j \in AskPosts : i < j

\* C10 as stated: whatever the URL input holds, a non-empty question is posted to
\* /ask exactly once.
C10_QuestionAlwaysPosted ==
    fpc = "done" =>
        /\ question # "" =>
                /\ Cardinality(AskPosts) = 1
                /\ \A j \in AskPosts : posts[j].question = question
        /\ WritePostedOnceFirst

\* the URL input is non-empty and has neither "youtube.com" nor "youtu.be" in it:
\* main reports it invalid and returns
RejectedUrl ==
    /\ video_url # <<>>
    /\ ~Contains(video_url, <<"youtube.com">>)
    /\ ~Contains(video_url, <<"youtu.be">>)

\* C10: a run that main does not end at the invalid-URL return posts a non-empty
\* question to /ask exactly once and an empty one never; a run ended there posts
\* nothing; /write-captions is posted at most once, only when a video id was
\* extracted, and before the /ask post.
C10_QuestionPostedUnlessRejected ==
    fpc = "done" =>
        /\ RejectedUrl => posts = <<>>
        /\ (~RejectedUrl /\ question # "") =>
                /\ Cardinality(AskPosts) = 1
                /\ \A j \in AskPosts : posts[j].question = question
        /\ question = "" => AskPosts = {}
        /\ WritePostedOnceFirst

C10_Witness ==
    /\ fpc = "done"
    /\ Len(posts) = 2
    /\ posts[1] = Post("/write-captions", video_url, "")
    /\ posts[2] = Post("/ask", <<>>, question)
    /\ Len(video_id.id) >= 1

====
